---- MODULE Spec2Model ----
(***************************************************************************)
(* State-machine model of uber_prof.py (UberWallet, FuelDialog and the     *)
(* module-level helpers).                                                  *)
(*                                                                         *)
(* Numbers.  The program computes with Python floats and rounds derived    *)
(* fields with round(x, 2).  The model is fixed-point: every amount of     *)
(* money, distance, liters and percent is an integer count of hundredths   *)
(* (Scale units per 1.0), so 1000.0 KES is 100000 and 0.4 l is 40.         *)
(* round(n/d, 2) is RoundDiv: the exact quotient rounded half-to-even.     *)
(* Float addition is modelled by integer addition (exact, associative).    *)
(* float('nan'), which float() reads from the text "nan", is the value NaN *)
(* below; the infinities and texts with more than two decimals are not     *)
(* modelled.                                                               *)
(*                                                                         *)
(* Dates are integers yyyymmdd and times integers hhmm, so that the text   *)
(* order of 'YYYY-MM-DD' / 'HH:MM' is the integer order.  The end_time,    *)
(* duration, station and location strings of a record are not modelled     *)
(* beyond what the code tests of them.                                     *)
(***************************************************************************)
EXTENDS Integers, Sequences, FiniteSets, TLC

Scale == 100

\* ---- program constants (src/uber_prof.py:22-26) -------------------------
DEFAULT_FUEL_EFFICIENCY == 25
DEFAULT_PETROL_PRICE == 180
MAX_TANK_CAPACITY == 60
\* load_data(trip_limit=100, fuel_limit=100)
TRIP_LIMIT == 100
FUEL_LIMIT == 100

\* ---- bounds of the model -------------------------------------------------
\* cap on len(self.trips) and on len(self.fuel_logs): add_trip and add_fuel are
\* not followed beyond them
MaxTrips == 3
MaxFuelLogs == 1
\* cap on the handler runs that change a record, a ledger value, a global or
\* the database
MaxOps == 3

\* ---- inputs --------------------------------------------------------------
\* float('nan'): an integer that no finite amount of the model takes.  The
\* operators F* below give it the arithmetic and the comparisons of a float.
NaN == -(10 ^ 9)

\* The text of an Entry widget: a decimal number, the empty string, the text
\* "nan", or text float() rejects.
Num(v) == [kind |-> "num", val |-> v]
EmptyText == [kind |-> "empty", val |-> 0]
NaNText == [kind |-> "nan", val |-> NaN]
BadText == [kind |-> "text", val |-> 0]

Dates == {20240105, 20240212}
Times == {900}

\* The six entries of the "Add Trip Details" / "Edit Trip Details" dialog.  No
\* entry of TripEntryInputs is the text "nan": the derived fields are computed
\* on finite amounts.
BaseEntries ==
    [cash_collected |-> Num(800 * Scale), fare |-> Num(1000 * Scale),
     service_fee |-> Num(100 * Scale), taxes |-> Num(50 * Scale),
     distance_km |-> Num(10 * Scale), tips |-> Num(20 * Scale)]

TripEntryInputs ==
    { BaseEntries,
      [BaseEntries EXCEPT !.fare = Num(0)],
      [BaseEntries EXCEPT !.fare = EmptyText],
      [BaseEntries EXCEPT !.fare = Num(-(1000 * Scale))] }

\* The text of the two Entry widgets of the settings tab, which are bound to
\* self.fuel_efficiency and self.petrol_price.  The user may overwrite them at
\* any time, so what a handler finds in the two DoubleVars is input of that
\* handler: any of these.
SettingsInputs ==
    { [eff |-> Num(DEFAULT_FUEL_EFFICIENCY * Scale), price |-> Num(DEFAULT_PETROL_PRICE * Scale)],
      [eff |-> Num(50 * Scale), price |-> Num(200 * Scale)],
      [eff |-> Num(0), price |-> Num(DEFAULT_PETROL_PRICE * Scale)] }

\* What the user enters in the FuelDialog: the amount and price Entry texts,
\* the date and time, whether station and location are filled in, and whether
\* the date and time lie in the future.  amount / price is exact in hundredths
\* of a liter for every pair below.
FuelInput(amount, price) ==
    [amount |-> amount, price |-> price, date |-> 20240105, time |-> 900,
     station |-> TRUE, location |-> TRUE, future |-> FALSE]

FuelInputs ==
    { FuelInput(Num(3000 * Scale), Num(100 * Scale)),
      FuelInput(Num(6000 * Scale), Num(100 * Scale)),
      FuelInput(Num(6001 * Scale), Num(100 * Scale)),
      FuelInput(NaNText, Num(100 * Scale)),
      FuelInput(Num(-(3000 * Scale)), Num(100 * Scale)),
      FuelInput(Num(3000 * Scale), Num(0)) }

\* ---- helpers -------------------------------------------------------------
\* round(n / d, 2) scaled by the caller: the quotient n/d rounded half-to-even.
RoundDiv(n, d) ==
    LET nn == IF d < 0 THEN -n ELSE n
        dd == IF d < 0 THEN -d ELSE d
        q == nn \div dd
        r == nn % dd
    IN  IF 2 * r < dd THEN q
        ELSE IF 2 * r > dd THEN q + 1
        ELSE IF q % 2 = 0 THEN q ELSE q + 1

\* float +, - and <= on values that may be NaN
FAdd(a, b) == IF a = NaN \/ b = NaN THEN NaN ELSE a + b
FSub(a, b) == IF a = NaN \/ b = NaN THEN NaN ELSE a - b
FLe(a, b) == a # NaN /\ b # NaN /\ a <= b

\* sum(rec[f] for rec in s)
RECURSIVE SumField(_, _)
SumField(s, f) ==
    IF s = <<>> THEN 0
    ELSE IF Len(s) = 1 THEN FAdd(s[1][f], 0)
    ELSE LET h == Len(s) \div 2
         IN FAdd(SumField(SubSeq(s, 1, h), f), SumField(SubSeq(s, h + 1, Len(s)), f))

\* list.insert(0, x)
InsertFront(s, x) == <<x>> \o s

\* list.pop(i), 1-based
RemoveAt(s, i) == SubSeq(s, 1, i - 1) \o SubSeq(s, i + 1, Len(s))

\* validate_positive_float: the validated value as a one-element set, or {}
\* for None (a messagebox has then been shown).
validate_positive_float(e) ==
    IF e.kind = "num" /\ e.val >= 0 THEN {e.val}
    ELSE IF e.kind = "nan" THEN {NaN}      \* float("nan") < 0 is False
    ELSE {}

\* the text of the messagebox validate_positive_float shows on failure
ValidateError(e) ==
    IF e.kind = "num" THEN "cannot be negative." ELSE "could not convert string to float"

\* tk.DoubleVar.get(): the float in the Entry, or a TclError ({}).
DoubleVarGet(e) == IF e.kind = "num" THEN {e.val} ELSE {}

\* ---- trip construction (save_trip / update_trip) -------------------------
\* the order of the `fields` list, which is the order the entries are read in
FieldOrder ==
    <<"cash_collected", "fare", "service_fee", "taxes", "distance_km", "tips">>

\* One pass of the loop body: an empty entry gives 0.0, any other text goes
\* through validate_positive_float.
EntryValue(e) == IF e.kind = "empty" THEN {0} ELSE validate_positive_float(e)

EntriesValid(entries) ==
    \A i \in 1..Len(FieldOrder) : EntryValue(entries[FieldOrder[i]]) # {}

ParsedInputs(entries) ==
    [k \in {FieldOrder[i] : i \in 1..Len(FieldOrder)} |->
        CHOOSE v \in EntryValue(entries[k]) : TRUE]

\* "Basic validation for required fields": `not trip['distance_km'] >= 0` or
\* `not trip['fare'] >= 0`, which holds of NaN only (validate_positive_float
\* has rejected the negative values).
RequiredFieldRejected(inp) == ~FLe(0, inp.distance_km) \/ ~FLe(0, inp.fare)

\* a derivation whose trip_balance takes the tips in, as earnings does
MetricsBalanceWithTips(t, eff, price) ==
    LET earnings == t.fare - (t.service_fee + t.taxes) + t.tips
        trip_balance == t.fare - (t.cash_collected + t.service_fee + t.taxes) + t.tips
        discount == t.fare - t.cash_collected
        fuel_used == IF t.distance_km # 0
                     THEN RoundDiv(t.distance_km * Scale, eff) ELSE 0
    IN  [earnings |-> earnings,
         trip_balance |-> trip_balance,
         discount |-> discount,
         discount_rate |-> IF t.fare # 0
                           THEN RoundDiv(discount * 100 * Scale, t.fare) ELSE 0,
         earnings_per_km |-> IF t.distance_km # 0
                             THEN RoundDiv(earnings * Scale, t.distance_km) ELSE 0,
         fuel_used |-> fuel_used,
         estimated_fuel_cost |-> RoundDiv(fuel_used * price, Scale),
         service_fee_percent |-> IF t.fare # 0
                                 THEN RoundDiv(t.service_fee * 100 * Scale, t.fare) ELSE 0,
         taxes_percent |-> IF t.fare # 0
                           THEN RoundDiv(t.taxes * 100 * Scale, t.fare) ELSE 0]

\* a derivation whose earnings leave the tips out
MetricsEarningsWithoutTips(t, eff, price) ==
    LET earnings == t.fare - (t.service_fee + t.taxes)
        trip_balance == t.fare - (t.cash_collected + t.service_fee + t.taxes)
        discount == t.fare - t.cash_collected
        fuel_used == IF t.distance_km # 0
                     THEN RoundDiv(t.distance_km * Scale, eff) ELSE 0
    IN  [earnings |-> earnings,
         trip_balance |-> trip_balance,
         discount |-> discount,
         discount_rate |-> IF t.fare # 0
                           THEN RoundDiv(discount * 100 * Scale, t.fare) ELSE 0,
         earnings_per_km |-> IF t.distance_km # 0
                             THEN RoundDiv(earnings * Scale, t.distance_km) ELSE 0,
         fuel_used |-> fuel_used,
         estimated_fuel_cost |-> RoundDiv(fuel_used * price, Scale),
         service_fee_percent |-> IF t.fare # 0
                                 THEN RoundDiv(t.service_fee * 100 * Scale, t.fare) ELSE 0,
         taxes_percent |-> IF t.fare # 0
                           THEN RoundDiv(t.taxes * 100 * Scale, t.fare) ELSE 0]

\* The nine derived fields, as the three copies of the block compute them
\* (save_trip, update_trip, recalculate_trip_data), from a record holding the
\* six inputs, a fuel efficiency and a petrol price.  Requires
\* t.distance_km = 0 or eff # 0 (ZeroDivisionError otherwise, see
\* MetricsException).
Metrics(t, eff, price) ==
    LET earnings == t.fare - (t.service_fee + t.taxes) + t.tips
        trip_balance == t.fare - (t.cash_collected + t.service_fee + t.taxes)
        discount == t.fare - t.cash_collected
        fuel_used == IF t.distance_km # 0
                     THEN RoundDiv(t.distance_km * Scale, eff) ELSE 0
    IN  [earnings |-> earnings,
         trip_balance |-> trip_balance,
         discount |-> discount,
         discount_rate |-> IF t.fare # 0
                           THEN RoundDiv(discount * 100 * Scale, t.fare) ELSE 0,
         earnings_per_km |-> IF t.distance_km # 0
                             THEN RoundDiv(earnings * Scale, t.distance_km) ELSE 0,
         fuel_used |-> fuel_used,
         estimated_fuel_cost |-> RoundDiv(fuel_used * price, Scale),
         service_fee_percent |-> IF t.fare # 0
                                 THEN RoundDiv(t.service_fee * 100 * Scale, t.fare) ELSE 0,
         taxes_percent |-> IF t.fare # 0
                           THEN RoundDiv(t.taxes * 100 * Scale, t.fare) ELSE 0]

\* A trip dict.  id is {} when the dict has no 'id' key and {n} when it has
\* id n.
MakeTrip(id, date, time, inp, m) ==
    [id |-> id, date |-> date, time |-> time,
     cash_collected |-> inp.cash_collected, fare |-> inp.fare,
     service_fee |-> inp.service_fee, taxes |-> inp.taxes,
     distance_km |-> inp.distance_km, tips |-> inp.tips,
     earnings |-> m.earnings, trip_balance |-> m.trip_balance,
     discount |-> m.discount, discount_rate |-> m.discount_rate,
     earnings_per_km |-> m.earnings_per_km, fuel_used |-> m.fuel_used,
     estimated_fuel_cost |-> m.estimated_fuel_cost,
     service_fee_percent |-> m.service_fee_percent,
     taxes_percent |-> m.taxes_percent]

\* an iteration that takes the fuel cost from the fuel_used the trip held
\* before the iteration
RecalcTripStaleFuel(t, eff, price) ==
    MakeTrip(t.id, t.date, t.time, t,
             [Metrics(t, eff, price) EXCEPT
                 !.estimated_fuel_cost = RoundDiv(t.fuel_used * price, Scale)])

\* one iteration of the loop of recalculate_trip_data
RecalcTrip(t, eff, price) == MakeTrip(t.id, t.date, t.time, t, Metrics(t, eff, price))

\* a loop that re-derives the first trip only
RecalcFirstOnly(ts, eff, price) ==
    IF ts = <<>> THEN <<>> ELSE <<RecalcTrip(Head(ts), eff, price)>> \o Tail(ts)

\* the loop of recalculate_trip_data over self.trips
RECURSIVE RecalcAll(_, _, _)
RecalcAll(ts, eff, price) ==
    IF ts = <<>> THEN <<>>
    ELSE IF Len(ts) = 1 THEN <<RecalcTrip(ts[1], eff, price)>>
    ELSE LET h == Len(ts) \div 2
         IN RecalcAll(SubSeq(ts, 1, h), eff, price)
              \o RecalcAll(SubSeq(ts, h + 1, Len(ts)), eff, price)

\* ---- the trips view -------------------------------------------------------
\* the columns of trips_tree that the model keeps
Row(t) ==
    [date |-> t.date, time |-> t.time, distance_km |-> t.distance_km,
     fare |-> t.fare, cash_collected |-> t.cash_collected,
     service_fee |-> t.service_fee, taxes |-> t.taxes, tips |-> t.tips,
     earnings |-> t.earnings, trip_balance |-> t.trip_balance,
     estimated_fuel_cost |-> t.estimated_fuel_cost]

\* populate_treeview: delete every row, insert one row per item, in order
RECURSIVE populate_treeview(_)
populate_treeview(data) ==
    IF data = <<>> THEN <<>>
    ELSE IF Len(data) = 1 THEN <<Row(data[1])>>
    ELSE LET h == Len(data) \div 2
         IN populate_treeview(SubSeq(data, 1, h))
              \o populate_treeview(SubSeq(data, h + 1, Len(data)))

\* ---- the SQLite database --------------------------------------------------
\* A table is a set of rows; a row of trips is a trip dict whose id is {n}.
\* INSERT of save_data: row i of the list gets the next AUTOINCREMENT id.
InsertedRows(ts, seq) == { [ts[i] EXCEPT !.id = {seq + i}] : i \in 1..Len(ts) }

\* save_data commits only when no INSERT fails.  The INSERT INTO fuel_logs
\* names the 7 FUEL_LOG_FIELDS and gives 6 placeholders, so sqlite3 raises
\* OperationalError for the first fuel log; the except branch shows a
\* messagebox and the connection is closed without commit (rollback).
SaveDataCommits(fl) == fl = <<>>

\* UPDATE trips SET <TRIP_FIELDS[1:]> WHERE id=?  (date is not in the SET list)
update_trip_in_db(rows, trip) ==
    { IF r.id = trip.id THEN [trip EXCEPT !.date = r.date] ELSE r : r \in rows }

\* DELETE FROM trips WHERE id=?
delete_trip_from_db(rows, id) == { r \in rows : r.id # id }

\* SELECT COUNT(*) FROM trips WHERE date=? AND time=? AND distance_km=? AND fare=?
is_duplicate_trip(rows, t) ==
    \E r \in rows : /\ r.date = t.date /\ r.time = t.time
                    /\ r.distance_km = t.distance_km /\ r.fare = t.fare

\* ORDER BY date DESC, time DESC
NewestFirst(s) ==
    \A i \in 1..(Len(s) - 1) :
        \/ s[i].date > s[i + 1].date
        \/ s[i].date = s[i + 1].date /\ s[i].time >= s[i + 1].time

Orderings(S) ==
    { s \in [1..Cardinality(S) -> S] : \A i, j \in 1..Cardinality(S) : i # j => s[i] # s[j] }

\* ORDER BY date DESC, time DESC on rows no two of which share date and time
\* (each row stands at the place that the number of newer rows gives it)
SortedNewestFirst(rows) ==
    LET placed == { <<Cardinality({ q \in rows : q.date > r.date
                                       \/ (q.date = r.date /\ q.time > r.time) }) + 1, r>> :
                      r \in rows }
    IN [k \in 1..Cardinality(rows) |-> (CHOOSE p \in placed : p[1] = k)[2]]

\* SELECT * FROM t ORDER BY date DESC, time DESC LIMIT ? OFFSET 0: every result
\* SQLite may return (rows equal in date and time come in either order).
\* Rows that differ pairwise in (date, time) come in one order only, which is
\* built row by row; rows with ties come in every order the sort allows.
SelectNewestFirst(rows, limit) ==
    IF \A r, q \in rows : r # q => (r.date # q.date \/ r.time # q.time)
    THEN { SubSeq(SortedNewestFirst(rows), 1,
                  IF Cardinality(rows) < limit THEN Cardinality(rows) ELSE limit) }
    ELSE { SubSeq(s, 1, IF Len(s) < limit THEN Len(s) ELSE limit) :
             s \in { o \in Orderings(rows) : NewestFirst(o) } }

\* ---- fuel logs -------------------------------------------------------------
\* liters = amount / price, in hundredths of a liter (price # 0)
Liters(amount, price) ==
    IF amount = NaN \/ price = NaN THEN NaN ELSE (amount * Scale) \div price

\* liters > MAX_TANK_CAPACITY, decided on the exact quotient amount / price
ExceedsCapacity(amount, price) ==
    amount # NaN /\ price # NaN /\ amount > MAX_TANK_CAPACITY * price

\* FuelDialog.on_save: the messagebox it shows when it rejects the input, or
\* "" when it sets self.result.
FuelDialogError(inp) ==
    IF validate_positive_float(inp.amount) = {} THEN "Amount " \o ValidateError(inp.amount)
    ELSE IF validate_positive_float(inp.price) = {} THEN "Price per Liter " \o ValidateError(inp.price)
    ELSE IF ~inp.station THEN "Station name is required."
    ELSE IF ~inp.location THEN "Location is required."
    ELSE IF inp.future THEN "Refuel time cannot be in the future."
    ELSE IF inp.price.val = 0 THEN "An error occurred: float division by zero"
    ELSE IF ExceedsCapacity(inp.amount.val, inp.price.val)
         THEN "Fuel added exceeds tank capacity."
    ELSE ""

\* an on_save whose handlers show nothing
FuelDialogSilent(inp) == ""

\* What msg keeps of the messagebox of a rejecting on_save: the text of the
\* `except Exception` handler, and "Error" for the validation messages.
FuelDialogShown(inp) ==
    IF inp.price.val = 0 /\ FuelDialogError(inp) = "An error occurred: float division by zero"
    THEN FuelDialogError(inp) ELSE "Error"

\* self.result of an accepted FuelDialog; id is edit_id ({} for None)
FuelDialogResult(inp, edit_id) ==
    [id |-> edit_id, date |-> inp.date, time |-> inp.time,
     amount |-> inp.amount.val, price_per_liter |-> inp.price.val,
     liters |-> Liters(inp.amount.val, inp.price.val)]

\* UPDATE fuel_logs SET <FUEL_LOG_FIELDS[1:]> WHERE id=?
update_fuel_log_in_db(rows, log) ==
    { IF r.id = log.id THEN [log EXCEPT !.date = r.date] ELSE r : r \in rows }

\* DELETE FROM fuel_logs WHERE id=?   (id None matches no row)
delete_fuel_log_from_db(rows, id) == { r \in rows : r.id # id \/ id = {} }

\* ---- state ----------------------------------------------------------------
VARIABLES
    trips,                    \* self.trips
    fuel_logs,                \* self.fuel_logs
    balance,                  \* self.balance
    current_fuel,             \* self.current_fuel
    default_fuel_efficiency,  \* module global DEFAULT_FUEL_EFFICIENCY
    default_petrol_price,     \* module global DEFAULT_PETROL_PRICE
    trips_tree,               \* rows of self.trips_tree, top to bottom
    heading_reverse,          \* per column of trips_tree: the reverse its heading command passes to sort_treeview
    db_trips,                 \* table trips of uber_wallet.db
    db_trip_seq,              \* its AUTOINCREMENT counter
    db_fuel_logs,             \* table fuel_logs of uber_wallet.db
    edit_dialog,              \* the open "Edit Trip Details" window and what update_trip closes over
    fuel_dialog,              \* the FuelDialog edit_selected_fuel_log waits on
    report,                   \* the last call of generate_report: its arguments and what it returned
    msg,                      \* title of the last messagebox shown; "Traceback" for an exception no handler caught
    ops                       \* model bookkeeping: the handler runs so far that changed dataVars

vars ==
    <<trips, fuel_logs, balance, current_fuel,
      default_fuel_efficiency, default_petrol_price, trips_tree, db_trips,
      db_trip_seq, db_fuel_logs, edit_dialog, fuel_dialog, report, msg, ops,
      heading_reverse>>

memVars == <<trips, fuel_logs, balance, current_fuel>>
cfgVars == <<default_fuel_efficiency, default_petrol_price>>
dbVars == <<db_trips, db_trip_seq, db_fuel_logs>>
dlgVars == <<edit_dialog, fuel_dialog>>

\* the columns of trips_tree whose heading the model clicks (cells that float() reads)
SortColumns == {"fare", "trip_balance"}

\* setup_trips_tab binds every heading to sort_treeview(tree, col, False)
InitialHeadings == [c \in SortColumns |-> FALSE]

NoEditDialog == [open |-> FALSE, selected_index |-> 0, id |-> {}, date |-> 0]
NoFuelDialog == [open |-> FALSE, selected_index |-> 0, id |-> {}]

\* generate_report returns a string; the model keeps a message as its text
Message(text) == [text |-> text]

\* no call of generate_report yet
NoReport ==
    [report_type |-> "", start_date |-> {}, end_date |-> {}, month |-> {}, year |-> {},
     day |-> {}, result |-> Message("")]

\* ---- ledger reductions ------------------------------------------------------
\* recalculate_current_fuel
recalculate_current_fuel(ts, fl) == FSub(SumField(fl, "liters"), SumField(ts, "fuel_used"))

\* the balance line of recalculate_balance_and_fuel and of load_data
recalculate_balance(ts) == SumField(ts, "trip_balance")

\* A row of table trips that save_trip and save_data wrote under the default
\* settings.
StoredTrip(id, date, time, entries) ==
    MakeTrip({id}, date, time, ParsedInputs(entries),
             Metrics(ParsedInputs(entries), DEFAULT_FUEL_EFFICIENCY * Scale,
                     DEFAULT_PETROL_PRICE * Scale))

\* The database file the program starts on: none (load_data creates the empty
\* tables), or the file an earlier session left after adding a trip on
\* 2024-01-05 and then a zero-fare trip on 2024-02-12 (the second save_data
\* wrote the list [newer, older] as rows 2 and 3).
InitialDatabases ==
    { [trips |-> {}, seq |-> 0],
      [trips |-> { StoredTrip(2, 20240212, 900, [BaseEntries EXCEPT !.fare = Num(0)]),
                   StoredTrip(3, 20240105, 900, BaseEntries) },
       seq |-> 3] }

\* UberWallet.__init__: load_data reads the database and sums the ledgers,
\* setup_ui fills the views.
Init ==
    /\ \E db \in InitialDatabases : db_trips = db.trips /\ db_trip_seq = db.seq
    /\ db_fuel_logs = {}
    /\ trips \in SelectNewestFirst(db_trips, TRIP_LIMIT)
    /\ fuel_logs \in SelectNewestFirst(db_fuel_logs, FUEL_LIMIT)
    /\ balance = recalculate_balance(trips)
    /\ current_fuel = recalculate_current_fuel(trips, fuel_logs)
    /\ default_fuel_efficiency = DEFAULT_FUEL_EFFICIENCY * Scale
    /\ default_petrol_price = DEFAULT_PETROL_PRICE * Scale
    /\ trips_tree = populate_treeview(trips)
    /\ heading_reverse = InitialHeadings
    /\ edit_dialog = NoEditDialog
    /\ fuel_dialog = NoFuelDialog
    /\ report = NoReport
    /\ msg = ""
    /\ ops = 0

\* What ops counts changes of: the records, the ledger values, the globals and
\* the database.
dataVars ==
    <<trips, fuel_logs, balance, current_fuel, default_fuel_efficiency,
      default_petrol_price, db_trips, db_trip_seq, db_fuel_logs>>

\* Last conjunct of every handler: the run is counted in ops when it changed
\* dataVars, and the model follows the program for MaxOps such runs.
Counted ==
    /\ ops' = IF dataVars' # dataVars THEN ops + 1 ELSE ops
    /\ ops' <= MaxOps

\* ---- saving ------------------------------------------------------------------
\* save_data on the lists ts, fl: the two tables are replaced and committed,
\* or nothing is (see SaveDataCommits).
save_data(ts, fl) ==
    IF SaveDataCommits(fl)
    THEN /\ db_trips' = InsertedRows(ts, db_trip_seq)
         /\ db_trip_seq' = db_trip_seq + Len(ts)
         /\ db_fuel_logs' = {}
    ELSE UNCHANGED dbVars

\* ---- trips: add ---------------------------------------------------------------
\* The exception, if any, raised by the metrics block when it reads the two
\* DoubleVars, whose Entry texts are cfg.eff and cfg.price: "" for none.
MetricsException(inp, cfg) ==
    IF inp.distance_km # 0 /\ DoubleVarGet(cfg.eff) = {} THEN "TclError"
    ELSE IF inp.distance_km # 0 /\ cfg.eff.val = 0 THEN "float division by zero"
    ELSE IF DoubleVarGet(cfg.price) = {} THEN "TclError"
    ELSE ""

\* add_trip and save_trip, the callback of the Save button of the non-modal
\* "Add Trip Details" window add_trip leaves open.  save_trip closes over the
\* date, the start time and the entries only, which are the user's input, so
\* the window is no state of the model: a Save that is rejected leaves the
\* window open for another SaveTrip step, and any other handler may run
\* between two of them.
SaveTrip(date, time, entries, cfg) ==
    /\ Len(trips) < MaxTrips
    /\ IF ~EntriesValid(entries)
       THEN /\ msg' = "Error"   \* the text of validate_positive_float
            /\ UNCHANGED <<memVars, cfgVars, dbVars, trips_tree, dlgVars>>
       ELSE LET inp == ParsedInputs(entries) IN
            IF RequiredFieldRejected(inp)
            THEN /\ msg' = "Error"   \* "Distance cannot be negative." / "Fare cannot be negative."
                 /\ UNCHANGED <<memVars, cfgVars, dbVars, trips_tree, dlgVars>>
            ELSE IF MetricsException(inp, cfg) # ""
            THEN /\ msg' = "Error"   \* "An error occurred: " + MetricsException(inp, cfg)
                 /\ UNCHANGED <<memVars, cfgVars, dbVars, trips_tree, dlgVars>>
            ELSE LET trip == MakeTrip({}, date, time, inp,
                                      Metrics(inp, cfg.eff.val, cfg.price.val))
                 IN  IF is_duplicate_trip(db_trips, trip)
                     THEN /\ msg' = "Error"   \* "Duplicate trip detected - not saved"
                          /\ UNCHANGED <<memVars, cfgVars, dbVars, trips_tree, dlgVars>>
                     ELSE /\ balance' = balance + trip.trip_balance
                          /\ trips' = InsertFront(trips, trip)
                          /\ current_fuel' = FSub(current_fuel, trip.fuel_used)
                          /\ save_data(trips', fuel_logs)
                          /\ trips_tree' = populate_treeview(trips')
                          /\ msg' = "Success"   \* "Trip added successfully!"
                          /\ UNCHANGED <<fuel_logs, cfgVars, dlgVars>>
    /\ UNCHANGED <<report, heading_reverse>>
    /\ Counted

\* ---- trips: edit --------------------------------------------------------------
\* edit_selected_trip up to the creation of the non-modal "Edit Trip Details"
\* window: sel is the position in trips_tree of the selected row (0: no row is
\* selected).  The start time given in the TimeInputDialog is read by nothing
\* but update_trip, so the model draws it there.
EditTripOpen(sel) ==
    /\ ~edit_dialog.open
    /\ sel \in 0..Len(trips_tree)
    /\ IF sel = 0
       THEN /\ msg' = "Info"   \* "Please select a trip to edit."
            /\ UNCHANGED edit_dialog
       ELSE IF sel > Len(trips)
       THEN /\ msg' = "Traceback"   \* "IndexError: list index out of range"
            /\ UNCHANGED edit_dialog
       ELSE /\ edit_dialog' = [open |-> TRUE, selected_index |-> sel, id |-> trips[sel].id,
                               date |-> trips[sel].date]
            /\ UNCHANGED msg
    /\ UNCHANGED <<memVars, cfgVars, dbVars, trips_tree, fuel_dialog>>
    /\ UNCHANGED <<report, heading_reverse>>
    /\ Counted

\* the user closes the "Edit Trip Details" window without updating
EditTripClose ==
    /\ edit_dialog.open
    /\ edit_dialog' = NoEditDialog
    /\ UNCHANGED <<memVars, cfgVars, dbVars, trips_tree, fuel_dialog, msg>>
    /\ UNCHANGED <<report, heading_reverse>>
    /\ Counted

\* update_trip, the callback of the Update button
UpdateTrip(time, entries, cfg) ==
    /\ edit_dialog.open
    /\ IF edit_dialog.id = {}
       THEN /\ msg' = "Error"   \* "An error occurred: 'id'"
            /\ UNCHANGED <<memVars, cfgVars, dbVars, trips_tree, dlgVars>>
       ELSE IF ~EntriesValid(entries)
       THEN /\ msg' = "Error"   \* the text of validate_positive_float
            /\ UNCHANGED <<memVars, cfgVars, dbVars, trips_tree, dlgVars>>
       ELSE LET inp == ParsedInputs(entries) IN
            IF RequiredFieldRejected(inp)
            THEN /\ msg' = "Error"   \* "Distance cannot be negative." / "Fare cannot be negative."
                 /\ UNCHANGED <<memVars, cfgVars, dbVars, trips_tree, dlgVars>>
            ELSE IF MetricsException(inp, cfg) # ""
            THEN /\ msg' = "Error"   \* "An error occurred: " + MetricsException(inp, cfg)
                 /\ UNCHANGED <<memVars, cfgVars, dbVars, trips_tree, dlgVars>>
            ELSE IF edit_dialog.selected_index > Len(trips)
            THEN /\ msg' = "Error"   \* "An error occurred: list assignment index out of range"
                 /\ UNCHANGED <<memVars, cfgVars, dbVars, trips_tree, dlgVars>>
            ELSE LET updated_trip == MakeTrip(edit_dialog.id, edit_dialog.date, time, inp,
                                              Metrics(inp, cfg.eff.val, cfg.price.val))
                 IN  /\ trips' = [trips EXCEPT ![edit_dialog.selected_index] = updated_trip]
                     /\ balance' = recalculate_balance(trips')
                     /\ current_fuel' = recalculate_current_fuel(trips', fuel_logs)
                     /\ db_trips' = update_trip_in_db(db_trips, updated_trip)
                     /\ trips_tree' = populate_treeview(trips')
                     /\ msg' = "Success"   \* "Trip updated successfully!"
                     /\ edit_dialog' = NoEditDialog
                     /\ UNCHANGED <<fuel_logs, cfgVars, db_trip_seq, db_fuel_logs, fuel_dialog>>
    /\ UNCHANGED <<report, heading_reverse>>
    /\ Counted

\* ---- trips: delete ------------------------------------------------------------
\* delete_selected_trip; yes is the answer to the askyesno box
DeleteSelectedTrip(sel, yes) ==
    /\ sel \in 0..Len(trips_tree)
    /\ IF sel = 0
       THEN /\ msg' = "Info"   \* "Please select a trip to delete."
            /\ UNCHANGED <<memVars, dbVars, trips_tree>>
       ELSE IF sel > Len(trips)
       THEN /\ msg' = "Traceback"   \* "IndexError: list index out of range"
            /\ UNCHANGED <<memVars, dbVars, trips_tree>>
       ELSE IF ~yes
       THEN UNCHANGED <<memVars, dbVars, trips_tree, msg>>
       ELSE IF trips[sel].id = {}
       THEN \* self.trips.pop(selected_index), then trip_to_delete['id'] raises
            /\ trips' = RemoveAt(trips, sel)
            /\ msg' = "Traceback"   \* "KeyError: 'id'"
            /\ UNCHANGED <<fuel_logs, balance, current_fuel, dbVars, trips_tree>>
       ELSE /\ trips' = RemoveAt(trips, sel)
            /\ db_trips' = delete_trip_from_db(db_trips, trips[sel].id)
            /\ balance' = recalculate_balance(trips')
            /\ current_fuel' = recalculate_current_fuel(trips', fuel_logs)
            /\ trips_tree' = populate_treeview(trips')
            /\ msg' = "Success"   \* "Trip deleted successfully!"
            /\ UNCHANGED <<fuel_logs, db_trip_seq, db_fuel_logs>>
    /\ UNCHANGED <<cfgVars, dlgVars>>
    /\ UNCHANGED <<report, heading_reverse>>
    /\ Counted

\* ---- fuel logs: add, edit, delete ------------------------------------------------
\* add_fuel: the FuelDialog is answered with inp (on_save), then add_fuel goes
\* on.  Nothing add_fuel uses is read before the dialog closes, so the wait is
\* not a separate step.
AddFuel(inp) ==
    /\ Len(fuel_logs) < MaxFuelLogs
    /\ IF FuelDialogError(inp) # ""
       THEN /\ msg' = FuelDialogShown(inp)
            /\ UNCHANGED <<memVars, dbVars>>
       ELSE LET result == FuelDialogResult(inp, {}) IN
            IF ExceedsCapacity(result.amount, result.price_per_liter)
            THEN /\ msg' = "Error"   \* "Fuel added exceeds tank capacity."
                 /\ UNCHANGED <<memVars, dbVars>>
            ELSE /\ fuel_logs' = InsertFront(fuel_logs, result)
                 /\ current_fuel' = recalculate_current_fuel(trips, fuel_logs')
                 /\ save_data(trips, fuel_logs')
                 /\ msg' = "Success"   \* "Fuel refill recorded!"
                 /\ UNCHANGED <<trips, balance>>
    /\ UNCHANGED <<cfgVars, trips_tree, dlgVars>>
    /\ UNCHANGED <<report, heading_reverse>>
    /\ Counted

\* edit_selected_fuel_log up to wait_window: sel is the position of the selected
\* row of fuel_tree (0: none).  fuel_tree is repopulated after every change of
\* fuel_logs, so it has Len(fuel_logs) rows.
EditFuelOpen(sel) ==
    /\ ~fuel_dialog.open
    /\ sel \in 0..Len(fuel_logs)
    /\ IF sel = 0
       THEN /\ msg' = "Info"   \* "Please select a fuel log to edit."
            /\ UNCHANGED fuel_dialog
       ELSE /\ fuel_dialog' = [open |-> TRUE, selected_index |-> sel, id |-> fuel_logs[sel].id]
            /\ UNCHANGED msg
    /\ UNCHANGED <<memVars, cfgVars, dbVars, trips_tree, edit_dialog>>
    /\ UNCHANGED <<report, heading_reverse>>
    /\ Counted

\* the user closes the FuelDialog: dialog.result stays None
EditFuelClose ==
    /\ fuel_dialog.open
    /\ fuel_dialog' = NoFuelDialog
    /\ UNCHANGED <<memVars, cfgVars, dbVars, trips_tree, edit_dialog, msg>>
    /\ UNCHANGED <<report, heading_reverse>>
    /\ Counted

\* Save in the FuelDialog of an edit (on_save), and the rest of
\* edit_selected_fuel_log once wait_window returns
EditFuelSave(inp) ==
    /\ fuel_dialog.open
    /\ IF FuelDialogError(inp) # ""
       THEN /\ msg' = FuelDialogShown(inp)
            /\ UNCHANGED <<memVars, dbVars, fuel_dialog>>
       ELSE IF fuel_dialog.selected_index > Len(fuel_logs)
       THEN /\ msg' = "Traceback"   \* "IndexError: list assignment index out of range"
            /\ fuel_dialog' = NoFuelDialog
            /\ UNCHANGED <<memVars, dbVars>>
       ELSE LET result == FuelDialogResult(inp, fuel_dialog.id)
            IN  /\ fuel_logs' = [fuel_logs EXCEPT ![fuel_dialog.selected_index] = result]
                /\ current_fuel' = recalculate_current_fuel(trips, fuel_logs')
                /\ db_fuel_logs' = update_fuel_log_in_db(db_fuel_logs, result)
                /\ msg' = "Success"   \* "Fuel log updated successfully!"
                /\ fuel_dialog' = NoFuelDialog
                /\ UNCHANGED <<trips, balance, db_trips, db_trip_seq>>
    /\ UNCHANGED <<cfgVars, trips_tree, edit_dialog>>
    /\ UNCHANGED <<report, heading_reverse>>
    /\ Counted

\* delete_selected_fuel_log; yes is the answer to the askyesno box
DeleteSelectedFuelLog(sel, yes) ==
    /\ sel \in 0..Len(fuel_logs)
    /\ IF sel = 0
       THEN /\ msg' = "Info"   \* "Please select a fuel log to delete."
            /\ UNCHANGED <<memVars, dbVars>>
       ELSE IF ~yes
       THEN UNCHANGED <<memVars, dbVars, msg>>
       ELSE /\ fuel_logs' = RemoveAt(fuel_logs, sel)
            /\ db_fuel_logs' = delete_fuel_log_from_db(db_fuel_logs, fuel_logs[sel].id)
            /\ current_fuel' = recalculate_current_fuel(trips, fuel_logs')
            /\ msg' = "Success"   \* "Fuel log deleted successfully!"
            /\ UNCHANGED <<trips, balance, db_trips, db_trip_seq>>
    /\ UNCHANGED <<cfgVars, trips_tree, dlgVars>>
    /\ UNCHANGED <<report, heading_reverse>>
    /\ Counted

\* ---- settings -------------------------------------------------------------------
\* recalculate_trip_data: every trip is re-derived under the module globals,
\* then save_data
recalculate_trip_data(eff, price) ==
    /\ trips' = RecalcAll(trips, eff, price)
    /\ save_data(trips', fuel_logs)

\* save_settings; cfg.eff and cfg.price are the texts of the two Entry widgets
SaveSettings(cfg) ==
    /\ IF DoubleVarGet(cfg.eff) = {} \/ DoubleVarGet(cfg.price) = {}
       THEN \* TclError is not a ValueError: it leaves save_settings uncaught
            /\ msg' = "Traceback"   \* "TclError: expected floating-point number"
            /\ UNCHANGED <<memVars, cfgVars, dbVars, trips_tree, dlgVars>>
       ELSE IF cfg.eff.val <= 0 \/ cfg.price.val <= 0
       THEN /\ msg' = "Error"   \* "Fuel efficiency and petrol price must be positive values."
            /\ UNCHANGED <<memVars, cfgVars, dbVars, trips_tree, dlgVars>>
       ELSE /\ default_fuel_efficiency' = cfg.eff.val
            /\ default_petrol_price' = cfg.price.val
            /\ recalculate_trip_data(default_fuel_efficiency', default_petrol_price')
            /\ trips_tree' = populate_treeview(trips')
            /\ msg' = "Success"   \* "Settings saved successfully!"
            /\ UNCHANGED <<fuel_logs, balance, current_fuel, dlgVars>>
    /\ UNCHANGED <<report, heading_reverse>>
    /\ Counted

\* ---- a new session ----------------------------------------------------------------
\* The program is closed and started again: the module is loaded afresh (the
\* globals are the defaults again) and UberWallet.__init__ runs load_data and
\* setup_ui on the database the last session left.
Restart ==
    /\ trips' \in SelectNewestFirst(db_trips, TRIP_LIMIT)
    /\ balance' = recalculate_balance(trips')
    /\ fuel_logs' \in SelectNewestFirst(db_fuel_logs, FUEL_LIMIT)
    /\ current_fuel' = recalculate_current_fuel(trips', fuel_logs')
    /\ default_fuel_efficiency' = DEFAULT_FUEL_EFFICIENCY * Scale
    /\ default_petrol_price' = DEFAULT_PETROL_PRICE * Scale
    /\ trips_tree' = populate_treeview(trips')
    /\ edit_dialog' = NoEditDialog
    /\ fuel_dialog' = NoFuelDialog
    /\ msg' = ""
    /\ UNCHANGED dbVars
    /\ heading_reverse' = InitialHeadings
    /\ UNCHANGED report
    /\ Counted

\* ---- reports ------------------------------------------------------------------------
\* year and month of a date yyyymmdd
YearOf(d) == d \div 10000
MonthOf(d) == (d \div 100) % 100

\* f"{x:.1f}" of an amount in hundredths: tenths, half-to-even.  (The
\* distances of the model have no hundredths digit.)
Format1f(x) == RoundDiv(x, 10)

\* totals taken from a fresh derivation of each trip under the current
\* globals in place of the stored fields
AggregateRederived(report_title, filtered_trips) ==
    LET again == RecalcAll(filtered_trips, default_fuel_efficiency, default_petrol_price)
    IN  [title |-> report_title,
         total_trips |-> Len(again),
         total_distance |-> Format1f(SumField(again, "distance_km")),
         total_earnings |-> SumField(again, "earnings"),
         total_fuel_cost |-> SumField(again, "estimated_fuel_cost"),
         net_earnings |-> SumField(again, "earnings")
                          - SumField(again, "estimated_fuel_cost")]

\* the totals of generate_report over the trips that passed the filter
AggregateOf(report_title, filtered_trips) ==
    [title |-> report_title,
     total_trips |-> Len(filtered_trips),
     total_distance |-> Format1f(SumField(filtered_trips, "distance_km")),
     total_earnings |-> SumField(filtered_trips, "earnings"),
     total_fuel_cost |-> SumField(filtered_trips, "estimated_fuel_cost"),
     net_earnings |-> SumField(filtered_trips, "earnings")
                      - SumField(filtered_trips, "estimated_fuel_cost")]

\* the tail of generate_report with its `if not filtered_trips` test left out
ReportOfUnchecked(report_title, filtered_trips) ==
    AggregateOf(report_title, filtered_trips)

\* the tail of generate_report, from `if not filtered_trips`
ReportOf(report_title, filtered_trips) ==
    IF filtered_trips = <<>> THEN Message("No trips found for the selected period.")
    ELSE AggregateOf(report_title, filtered_trips)

\* generate_report over the list ts.  An optional argument is {} for None and
\* {v} for the value v; month and year are falsy when None or 0.
generate_report(ts, report_type, start_date, end_date, month, year, day) ==
    IF ts = <<>> THEN Message("No trip data available.")
    ELSE IF report_type = "daily"
    THEN IF day # {}
         THEN LET d == CHOOSE x \in day : TRUE
              IN  ReportOf(<<"Daily Report for", d>>,
                           SelectSeq(ts, LAMBDA trip : trip.date = d))
         ELSE Message("Please select a date for the daily report.")
    ELSE IF report_type = "weekly"
    THEN IF start_date # {} /\ end_date # {}
         THEN LET a == CHOOSE x \in start_date : TRUE
                  b == CHOOSE x \in end_date : TRUE
              IN  ReportOf(<<"Weekly Report for", a, "to", b>>,
                           SelectSeq(ts, LAMBDA trip : a <= trip.date /\ trip.date <= b))
         ELSE Message("Please select start and end dates for the weekly report.")
    ELSE IF report_type = "monthly"
    THEN IF month \notin {{}, {0}} /\ year \notin {{}, {0}}
         THEN LET m == CHOOSE x \in month : TRUE
                  y == CHOOSE x \in year : TRUE
              IN  ReportOf(<<"Monthly Report for", m, y>>,
                           SelectSeq(ts, LAMBDA trip : YearOf(trip.date) = y
                                                       /\ MonthOf(trip.date) = m))
         ELSE Message("Please select month and year for the monthly report.")
    ELSE Message("Invalid report type.")

\* the arguments generate_report is called with
ReportTypes == {"daily", "weekly", "monthly", "yearly"}
ReportDates == {{}, {20240105}, {20240212}, {20240301}}
ReportMonths == {{}, {0}, {1}, {2}}
ReportYears == {{}, {2023}, {2024}}

\* a call of generate_report; it reads self.trips and changes nothing
GenerateReport(report_type, start_date, end_date, month, year, day) ==
    /\ report' = [report_type |-> report_type, start_date |-> start_date,
                  end_date |-> end_date, month |-> month, year |-> year, day |-> day,
                  result |-> generate_report(trips, report_type, start_date, end_date,
                                             month, year, day)]
    /\ UNCHANGED <<memVars, cfgVars, dbVars, trips_tree, heading_reverse, dlgVars, msg, ops>>

\* The lists generate_report is checked on: what load_data reads from a
\* database that holds any of these rows.  Row 2 was saved while the settings
\* entries read 50 km/l and 200 KES/l (save_trip derives from the entries), so
\* its stored fuel_used and estimated_fuel_cost are not what the defaults give.
ReportRows ==
    { StoredTrip(1, 20240105, 900, BaseEntries),
      MakeTrip({2}, 20240105, 1730, ParsedInputs([BaseEntries EXCEPT !.fare = Num(0)]),
               Metrics(ParsedInputs([BaseEntries EXCEPT !.fare = Num(0)]),
                       50 * Scale, 200 * Scale)),
      StoredTrip(3, 20240212, 900, BaseEntries),
      StoredTrip(4, 20230105, 900, BaseEntries) }

ReportInit ==
    /\ db_trips \in SUBSET ReportRows
    /\ db_trip_seq = Cardinality(ReportRows)
    /\ db_fuel_logs = {}
    /\ trips \in SelectNewestFirst(db_trips, TRIP_LIMIT)
    /\ fuel_logs = <<>>
    /\ balance = recalculate_balance(trips)
    /\ current_fuel = recalculate_current_fuel(trips, fuel_logs)
    /\ default_fuel_efficiency = DEFAULT_FUEL_EFFICIENCY * Scale
    /\ default_petrol_price = DEFAULT_PETROL_PRICE * Scale
    /\ trips_tree = populate_treeview(trips)
    /\ heading_reverse = InitialHeadings
    /\ edit_dialog = NoEditDialog
    /\ fuel_dialog = NoFuelDialog
    /\ report = NoReport
    /\ msg = ""
    /\ ops = 0

\* generate_report reads nothing an earlier call left, so one call is followed
\* from every list.
ReportNext ==
    /\ report = NoReport
    /\ \E report_type \in ReportTypes, start_date \in ReportDates, end_date \in ReportDates,
          month \in ReportMonths, year \in ReportYears, day \in ReportDates :
           GenerateReport(report_type, start_date, end_date, month, year, day)

ReportSpec == ReportInit /\ [][ReportNext]_vars

\* ---- the derivation on a wider range of entries ---------------------------------
\* Entries with fare 0, 300 and 1000, distance 0, 7 and 10 km, tips 0 and 20.
MetricsEntryInputs ==
    { [BaseEntries EXCEPT !.fare = Num(f * Scale), !.distance_km = Num(d * Scale),
                          !.tips = Num(p * Scale)] :
        f \in {0, 300, 1000}, d \in {0, 7, 10}, p \in {0, 20} }

\* the number of changing handler runs followed on these entries
MetricsMaxOps == 2

\* The handlers that derive trip fields (save_trip, update_trip with the
\* selection before it, save_settings), run on MetricsEntryInputs.
MetricsNext ==
    \/ /\ ops < MetricsMaxOps
       /\ \E e \in MetricsEntryInputs, cfg \in SettingsInputs :
              SaveTrip(20240105, 900, e, cfg)
    \/ /\ ops < MetricsMaxOps
       /\ \E sel \in 1..Len(trips_tree) : EditTripOpen(sel)
    \/ /\ ops < MetricsMaxOps
       /\ \E e \in MetricsEntryInputs, cfg \in SettingsInputs : UpdateTrip(900, e, cfg)
    \/ /\ ops < MetricsMaxOps
       /\ \E cfg \in SettingsInputs : SaveSettings(cfg)

MetricsSpec == Init /\ [][MetricsNext]_vars

\* ---- the trips view re-sorted -------------------------------------------------------
\* data.sort(key=float(cell), reverse=reverse) on the rows of the view: the
\* sort is stable, so rows with equal cells keep their order in both directions
StableSorted(rows, col, reverse) ==
    LET n == Len(rows)
        before(j, i) ==
            \/ IF reverse THEN rows[j][col] > rows[i][col] ELSE rows[j][col] < rows[i][col]
            \/ rows[j][col] = rows[i][col] /\ j < i
        place(i) == Cardinality({ j \in 1..n : before(j, i) }) + 1
    IN SubSeq([k \in 1..n |-> rows[CHOOSE i \in 1..n : place(i) = k]], 1, n)

\* sort_treeview, the command of the heading of column col: the rows of the
\* view are moved into sorted order (self.trips is not touched) and the
\* heading is bound to the opposite direction
SortTreeview(col) ==
    /\ trips_tree' = StableSorted(trips_tree, col, heading_reverse[col])
    /\ heading_reverse' = [heading_reverse EXCEPT ![col] = ~heading_reverse[col]]
    /\ UNCHANGED <<memVars, cfgVars, dbVars, dlgVars, report, msg, ops>>

\* the changing handler runs the view is followed for
ViewMaxOps == 2

\* The headings are clicked, and trips are edited and deleted, on the lists
\* loaded from the databases of ReportInit.
ViewNext ==
    \/ \E col \in SortColumns : SortTreeview(col)
    \/ /\ ops < ViewMaxOps
       /\ \E sel \in 1..Len(trips_tree), yes \in BOOLEAN : DeleteSelectedTrip(sel, yes)
    \/ /\ ops < ViewMaxOps
       /\ \E sel \in 1..Len(trips_tree) : EditTripOpen(sel)
    \/ /\ ops < ViewMaxOps
       /\ \E e \in TripEntryInputs, cfg \in SettingsInputs : UpdateTrip(900, e, cfg)

ViewSpec == ReportInit /\ [][ViewNext]_vars

\* ---- startup on a long history ----------------------------------------------------
\* The largest number of rows of table trips the program is started on.
MaxStoredTrips == 101

\* the date of the i-th day of trips, 28 days to a month from 2024-01-01
DayOfTrips(i) == 20240101 + 100 * ((i - 1) \div 28) + ((i - 1) % 28)

\* The database file after n trips were added on n successive days, one a day:
\* add_trip puts the new trip first and save_data re-inserts the whole list on
\* every add, so the last save_data wrote the n trips, newest first, under the
\* ids that follow the n (n - 1) / 2 of the earlier saves.
LongDatabase(n) ==
    [trips |-> { StoredTrip((n * (n - 1)) \div 2 + k, DayOfTrips(n - k + 1), 900, BaseEntries) :
                   k \in 1..n },
     seq |-> (n * (n + 1)) \div 2]

\* UberWallet.__init__ on such a file
LoadInit ==
    /\ \E n \in 0..MaxStoredTrips :
          /\ db_trips = LongDatabase(n).trips
          /\ db_trip_seq = LongDatabase(n).seq
    /\ db_fuel_logs = {}
    /\ trips \in SelectNewestFirst(db_trips, TRIP_LIMIT)
    /\ fuel_logs \in SelectNewestFirst(db_fuel_logs, FUEL_LIMIT)
    /\ balance = recalculate_balance(trips)
    /\ current_fuel = recalculate_current_fuel(trips, fuel_logs)
    /\ default_fuel_efficiency = DEFAULT_FUEL_EFFICIENCY * Scale
    /\ default_petrol_price = DEFAULT_PETROL_PRICE * Scale
    /\ trips_tree = populate_treeview(trips)
    /\ heading_reverse = InitialHeadings
    /\ edit_dialog = NoEditDialog
    /\ fuel_dialog = NoFuelDialog
    /\ report = NoReport
    /\ msg = ""
    /\ ops = 0

\* The settings are saved once, and the program is started again.
LoadNext ==
    \/ /\ ops = 0
       /\ \E cfg \in SettingsInputs : SaveSettings(cfg)
    \/ Restart

LoadSpec == LoadInit /\ [][LoadNext]_vars

\* ---- the next-state relation --------------------------------------------------
Next ==
    \/ \E d \in Dates, t \in Times, e \in TripEntryInputs, cfg \in SettingsInputs :
          SaveTrip(d, t, e, cfg)
    \/ \E sel \in 1..Len(trips_tree) : EditTripOpen(sel)
    \/ EditTripClose
    \/ \E t \in Times, e \in TripEntryInputs, cfg \in SettingsInputs :
          UpdateTrip(t, e, cfg)
    \/ \E sel \in 1..Len(trips_tree), yes \in BOOLEAN : DeleteSelectedTrip(sel, yes)
    \/ \E inp \in FuelInputs : AddFuel(inp)
    \/ \E sel \in 1..Len(fuel_logs) : EditFuelOpen(sel)
    \/ EditFuelClose
    \/ \E inp \in FuelInputs : EditFuelSave(inp)
    \/ \E sel \in 1..Len(fuel_logs), yes \in BOOLEAN : DeleteSelectedFuelLog(sel, yes)
    \/ \E cfg \in SettingsInputs : SaveSettings(cfg)
    \/ Restart

Spec == Init /\ [][Next]_vars

\* ---- properties ------------------------------------------------------------------
\* C1: in every reachable state the wallet balance equals the sum of
\* trip_balance over the trips of the in-memory trip list.
C1_BalanceIsSumOfTripBalances ==
    balance = SumField(trips, "trip_balance")

\* C2: in every reachable state, the state right after a settings change
\* included, the current fuel level equals the sum of liters over the fuel
\* logs minus the sum of fuel_used over the trips of the in-memory lists
\* (equal as values: a NaN level is the NaN difference).
C2_CurrentFuelIsLitersMinusUsed ==
    current_fuel = FSub(SumField(fuel_logs, "liters"), SumField(trips, "fuel_used"))

\* the (date, start time, distance_km, fare) tuple of a trip
DuplicateKey(t) == <<t.date, t.time, t.distance_km, t.fare>>

\* the entries and the settings texts let save_trip reach its duplicate check
ReachesDuplicateCheck(entries, cfg) ==
    /\ EntriesValid(entries)
    /\ ~RequiredFieldRejected(ParsedInputs(entries))
    /\ MetricsException(ParsedInputs(entries), cfg) = ""

\* C3: a run of save_trip that reaches the duplicate check adds the trip
\* exactly when no trip of the current trip list has the same (date, start
\* time, distance_km, fare).
C3_DuplicateIffInTripList ==
    [][\A d \in Dates, t \in Times, e \in TripEntryInputs, cfg \in SettingsInputs :
          (SaveTrip(d, t, e, cfg) /\ ReachesDuplicateCheck(e, cfg))
          => LET key == <<d, t, ParsedInputs(e).distance_km, ParsedInputs(e).fare>>
                 inList == \E i \in 1..Len(trips) : DuplicateKey(trips[i]) = key
             IN  (Len(trips') = Len(trips) + 1) <=> ~inList]_vars

\* save_settings accepts the texts cfg: both are numbers, both positive
SettingsAccepted(cfg) ==
    /\ DoubleVarGet(cfg.eff) # {} /\ DoubleVarGet(cfg.price) # {}
    /\ cfg.eff.val > 0 /\ cfg.price.val > 0

\* the six inputs and the nine derived fields of a trip
InputsOf(t) ==
    [cash_collected |-> t.cash_collected, fare |-> t.fare, service_fee |-> t.service_fee,
     taxes |-> t.taxes, distance_km |-> t.distance_km, tips |-> t.tips]
DerivedOf(t) ==
    [earnings |-> t.earnings, trip_balance |-> t.trip_balance, discount |-> t.discount,
     discount_rate |-> t.discount_rate, earnings_per_km |-> t.earnings_per_km,
     fuel_used |-> t.fuel_used, estimated_fuel_cost |-> t.estimated_fuel_cost,
     service_fee_percent |-> t.service_fee_percent, taxes_percent |-> t.taxes_percent]

\* C4: when save_settings accepts a fuel efficiency and a petrol price, the
\* trip list afterwards holds the same trips with the same inputs, and the
\* derived fields of every one of them are the derivation from its inputs
\* under the accepted efficiency and price.
C4_SaveSettingsRederivesEveryTrip ==
    [][\A cfg \in SettingsInputs :
          (SaveSettings(cfg) /\ SettingsAccepted(cfg))
          => /\ Len(trips') = Len(trips)
             /\ \A i \in 1..Len(trips) :
                   /\ trips'[i].id = trips[i].id
                   /\ InputsOf(trips'[i]) = InputsOf(trips[i])
                   /\ DerivedOf(trips'[i])
                        = Metrics(InputsOf(trips[i]), cfg.eff.val, cfg.price.val)]_vars

\* C4 witness: save_settings has accepted 50 km/l and 200 KES/l while the list
\* holds two trips or more; every trip carries 10 km / 50 = 0.2 l and
\* 0.2 * 200 = 40 KES.
C4_SettingsChangedWithTrips ==
    /\ default_fuel_efficiency = 50 * Scale
    /\ default_petrol_price = 200 * Scale
    /\ Len(trips) >= 2
    /\ \A i \in 1..Len(trips) :
          trips[i].fuel_used = 20 /\ trips[i].estimated_fuel_cost = 40 * Scale

\* a step of a handler that adds, edits or deletes a trip or a fuel log
RecordOpStep ==
    \/ \E d \in Dates, t \in Times, e \in TripEntryInputs, cfg \in SettingsInputs :
          SaveTrip(d, t, e, cfg)
    \/ \E t \in Times, e \in TripEntryInputs, cfg \in SettingsInputs : UpdateTrip(t, e, cfg)
    \/ \E sel \in 1..Len(trips_tree) : DeleteSelectedTrip(sel, TRUE)
    \/ \E inp \in FuelInputs : AddFuel(inp) \/ EditFuelSave(inp)
    \/ \E sel \in 1..Len(fuel_logs) : DeleteSelectedFuelLog(sel, TRUE)

\* The step changed a record list and brought both ledgers along: each is the
\* recomputation over the new lists, or the old value moved by the change of
\* that recomputation.
AppliedInFull ==
    /\ trips' # trips \/ fuel_logs' # fuel_logs
    /\ \/ balance' = recalculate_balance(trips')
       \/ balance' = balance + (recalculate_balance(trips') - recalculate_balance(trips))
    /\ \/ current_fuel' = recalculate_current_fuel(trips', fuel_logs')
       \/ current_fuel' = FAdd(current_fuel,
                               FSub(recalculate_current_fuel(trips', fuel_logs'),
                                    recalculate_current_fuel(trips, fuel_logs)))

\* C5: every add, edit or delete of a trip or a fuel log either leaves the
\* record lists, the balance and the fuel level as they were, or changes a
\* list and updates the balance and the fuel level with it.
C5_RecordOpsAllOrNothing ==
    [][RecordOpStep => (memVars' = memVars \/ AppliedInFull)]_vars

\* C6: every fuel log of the list has liters <= 60.
C6_EveryFuelLogWithinCapacity ==
    \A i \in 1..Len(fuel_logs) : FLe(fuel_logs[i].liters, MAX_TANK_CAPACITY * Scale)

\* C7: while the "Edit Trip Details" window of an edit stays open (the edit is
\* neither applied nor abandoned by the step) and while the FuelDialog of a
\* fuel-log edit stays open, no step changes the trip list or the fuel list.
C7_NoMutationWhileEditOpen ==
    [][(\/ edit_dialog.open /\ edit_dialog'.open
        \/ fuel_dialog.open /\ fuel_dialog'.open)
       => (trips' = trips /\ fuel_logs' = fuel_logs)]_vars

\* a trip or a row of table trips without its id
WithoutId(t) == [k \in (DOMAIN t) \ {"id"} |-> t[k]]
ListRecords(s) == { WithoutId(s[i]) : i \in 1..Len(s) }

\* the tables hold the records of the lists, one row per list item
StorageEqualsMemory ==
    /\ { WithoutId(r) : r \in db_trips } = ListRecords(trips)
    /\ Cardinality(db_trips) = Len(trips)
    /\ { WithoutId(r) : r \in db_fuel_logs } = ListRecords(fuel_logs)
    /\ Cardinality(db_fuel_logs) = Len(fuel_logs)

\* C8: after every add, edit or delete of a trip or a fuel log that reported
\* success, the tables hold the records of the in-memory lists.
C8_StorageEqualsMemoryAfterRecordOp ==
    [][(RecordOpStep /\ msg' = "Success") => StorageEqualsMemory']_vars

\* C9: every trip of the list has an id, no two trips share one, and table
\* trips holds that trip under that id.
C9_TripIdsUniqueAndStored ==
    /\ \A i \in 1..Len(trips) : trips[i].id # {}
    /\ \A i, j \in 1..Len(trips) : trips[i].id = trips[j].id => i = j
    /\ \A i \in 1..Len(trips) : trips[i] \in db_trips

\* the filter arguments of the call c are well formed for its report type
WellFormedFilter(c) ==
    \/ c.report_type = "daily" /\ c.day # {}
    \/ c.report_type = "weekly" /\ c.start_date # {} /\ c.end_date # {}
    \/ c.report_type = "monthly" /\ c.month \notin {{}, {0}} /\ c.year \notin {{}, {0}}

\* the trip t passes the filter of the call c
MatchesFilter(t, c) ==
    \/ c.report_type = "daily" /\ c.day = {t.date}
    \/ c.report_type = "weekly"
       /\ \E a \in c.start_date, b \in c.end_date : a <= t.date /\ t.date <= b
    \/ c.report_type = "monthly" /\ c.month = {MonthOf(t.date)} /\ c.year = {YearOf(t.date)}

\* C10: generate_report called on an empty trip list returns "No trip data
\* available."; called on a non-empty list with a well-formed filter that no
\* trip passes it returns "No trips found for the selected period."; and that
\* second result is not what the same call returns on the empty list.
C10_NoDataDistinctFromNoMatch ==
    report # NoReport
    => /\ trips = <<>> => report.result = Message("No trip data available.")
       /\ ( /\ trips # <<>>
            /\ WellFormedFilter(report)
            /\ \A i \in 1..Len(trips) : ~MatchesFilter(trips[i], report) )
          => /\ report.result = Message("No trips found for the selected period.")
             /\ report.result # generate_report(<<>>, report.report_type, report.start_date,
                                                report.end_date, report.month, report.year,
                                                report.day)

\* C10 witness: a monthly report for January 2023 has been asked of a list of
\* two trips or more, all of 2024, and the result is the message of a filter
\* that matches nothing.
C10_NoMatchOnNonEmptyList ==
    /\ Len(trips) >= 2
    /\ \A i \in 1..Len(trips) : YearOf(trips[i].date) = 2024
    /\ report.report_type = "monthly" /\ report.month = {1} /\ report.year = {2023}
    /\ report.result = Message("No trips found for the selected period.")

\* a required filter argument of the call c is missing for its report type
\* (None, or 0 for month and year)
MissingFilter(c) ==
    \/ c.report_type = "daily" /\ c.day = {}
    \/ c.report_type = "weekly" /\ (c.start_date = {} \/ c.end_date = {})
    \/ c.report_type = "monthly" /\ (c.month \in {{}, {0}} \/ c.year \in {{}, {0}})

\* the three results that tell the caller which argument to supply
InputErrorResults ==
    { Message("Please select a date for the daily report."),
      Message("Please select start and end dates for the weekly report."),
      Message("Please select month and year for the monthly report.") }

\* C11: generate_report called with a required filter argument missing
\* returns one of the caller-input error results, whatever the trip list.
C11_MissingFilterIsInputError ==
    (report # NoReport /\ MissingFilter(report)) => report.result \in InputErrorResults

\* the positions of the trips of ts that pass the filter of the call c
MatchingIndices(ts, c) == { i \in 1..Len(ts) : MatchesFilter(ts[i], c) }

\* the sum of a stored field over the trips of ts at the positions idx
RECURSIVE SumOver(_, _, _)
SumOver(ts, idx, field) ==
    IF idx = {} THEN 0
    ELSE LET i == CHOOSE j \in idx : TRUE
         IN  ts[i][field] + SumOver(ts, idx \ {i}, field)

\* C12: on a non-empty list, with a well-formed filter that some trip passes,
\* generate_report returns the count of the trips that pass (daily: date is
\* the day; weekly: start <= date <= end; monthly: same year and month), the
\* sums of their stored distance_km, earnings and estimated_fuel_cost, and net
\* earnings = total earnings - total fuel cost.
C12_ReportAggregatesMatchingTrips ==
    LET idx == MatchingIndices(trips, report)
    IN  (report # NoReport /\ trips # <<>> /\ WellFormedFilter(report) /\ idx # {})
        => /\ DOMAIN report.result
                = {"title", "total_trips", "total_distance", "total_earnings",
                   "total_fuel_cost", "net_earnings"}
           /\ report.result.total_trips = Cardinality(idx)
           /\ report.result.total_distance = Format1f(SumOver(trips, idx, "distance_km"))
           /\ report.result.total_earnings = SumOver(trips, idx, "earnings")
           /\ report.result.total_fuel_cost = SumOver(trips, idx, "estimated_fuel_cost")
           /\ report.result.net_earnings
                = SumOver(trips, idx, "earnings") - SumOver(trips, idx, "estimated_fuel_cost")

\* C12 witness: a daily report for 2024-01-05 over a list of three trips or
\* more counts the two trips of that day, 20.0 km, earnings 870 - 130 = 740,
\* and the stored fuel costs 72 + 40 = 112.
C12_DailyReportOfTwoTrips ==
    /\ Len(trips) >= 3
    /\ report.report_type = "daily" /\ report.day = {20240105}
    /\ DOMAIN report.result # {"text"}
    /\ report.result.total_trips = 2
    /\ report.result.total_distance = 200
    /\ report.result.total_earnings = 740 * Scale
    /\ report.result.total_fuel_cost = 112 * Scale
    /\ report.result.net_earnings = 628 * Scale

\* a required numeric entry (fare, distance) of the dialog was left empty
RequiredFieldEmpty(entries) ==
    entries.fare = EmptyText \/ entries.distance_km = EmptyText

\* C13: a run of save_trip or update_trip on entries whose fare or distance
\* is empty shows an error and leaves the trip list, the balance and the fuel
\* level as they were.
C13_EmptyRequiredFieldRejected ==
    [][\A e \in TripEntryInputs, t \in Times, cfg \in SettingsInputs :
          ((UpdateTrip(t, e, cfg) \/ \E d \in Dates : SaveTrip(d, t, e, cfg))
           /\ RequiredFieldEmpty(e))
          => (msg' = "Error" /\ memVars' = memVars)]_vars

\* the six amounts a trip is entered with
TripInputFields ==
    {"cash_collected", "fare", "service_fee", "taxes", "distance_km", "tips"}

\* C14: every trip of the list has cash_collected, fare, service_fee, taxes,
\* distance_km and tips >= 0, and every fuel log has amount >= 0 and
\* price_per_liter >= 0.
C14_StoredAmountsNonNegative ==
    /\ \A i \in 1..Len(trips) : \A k \in TripInputFields : FLe(0, trips[i][k])
    /\ \A j \in 1..Len(fuel_logs) :
          FLe(0, fuel_logs[j].amount) /\ FLe(0, fuel_logs[j].price_per_liter)

\* C15: a run of on_save in the FuelDialog of an add or of an edit with price
\* per liter 0 shows an error and leaves the fuel-log list and the current
\* fuel level as they were.
C15_ZeroPriceRejected ==
    [][\A inp \in FuelInputs :
          ((AddFuel(inp) \/ EditFuelSave(inp)) /\ inp.price = Num(0))
          => /\ msg' \notin {"", "Success", "Info"}
             /\ fuel_logs' = fuel_logs
             /\ current_fuel' = current_fuel]_vars

\* C15 witness: the FuelDialog of an edit has answered price 0 with the
\* division error; it is still open and the list still holds the log.
C15_ZeroPriceAnsweredInEdit ==
    /\ msg = "An error occurred: float division by zero"
    /\ fuel_dialog.open
    /\ Len(fuel_logs) = 1

\* C16: for every trip of the list, after a creation, an edit or a
\* recalculation, earnings = fare - (service_fee + taxes) + tips, trip_balance
\* = fare - (cash_collected + service_fee + taxes) and discount = fare -
\* cash_collected, exactly; two trips that differ in tips only have the same
\* trip_balance.
C16_ExactDerivations ==
    /\ \A i \in 1..Len(trips) :
          LET t == trips[i]
          IN  /\ t.earnings = t.fare - (t.service_fee + t.taxes) + t.tips
              /\ t.trip_balance = t.fare - (t.cash_collected + t.service_fee + t.taxes)
              /\ t.discount = t.fare - t.cash_collected
    /\ \A i, j \in 1..Len(trips) :
          [InputsOf(trips[i]) EXCEPT !.tips = 0] = [InputsOf(trips[j]) EXCEPT !.tips = 0]
          => trips[i].trip_balance = trips[j].trip_balance

\* C16 witness: after two handler runs, a recalculation under 50 km/l among
\* them, the list holds two trips that differ in tips only, with one
\* trip_balance.
C16_TwoTripsDifferingInTipsOnly ==
    /\ ops = 2
    /\ default_fuel_efficiency = 50 * Scale
    /\ \E i, j \in 1..Len(trips) :
          /\ trips[i].tips # trips[j].tips
          /\ [InputsOf(trips[i]) EXCEPT !.tips = 0] = [InputsOf(trips[j]) EXCEPT !.tips = 0]
          /\ trips[i].trip_balance = trips[j].trip_balance
          /\ trips[i].earnings # trips[j].earnings

\* the zero-denominator policy on the derived fields of the trip t
ZeroDenominatorPolicy(t) ==
    /\ t.fare = 0
       => t.discount_rate = 0 /\ t.service_fee_percent = 0 /\ t.taxes_percent = 0
    /\ t.distance_km = 0 => t.earnings_per_km = 0 /\ t.fuel_used = 0

\* C17: every trip of the list after a creation, an edit or a recalculation
\* obeys the zero-denominator policy, and no run of save_trip or update_trip
\* that derives the fields of a trip with fare 0 or distance 0 raises a
\* division by zero.
C17_ZeroDenominatorsNeverFault ==
    [][/\ \A i \in 1..Len(trips') : ZeroDenominatorPolicy(trips'[i])
       /\ \A e \in MetricsEntryInputs, cfg \in SettingsInputs :
             (/\ \/ SaveTrip(20240105, 900, e, cfg)
                 \/ UpdateTrip(900, e, cfg) /\ edit_dialog.id # {}
              /\ ParsedInputs(e).fare = 0 \/ ParsedInputs(e).distance_km = 0)
             => MetricsException(ParsedInputs(e), cfg) # "float division by zero"]_vars

\* C18: save_trip on fare 1000, cash 800, service fee 100, taxes 50, 10 km,
\* tips 20, with the settings entries at 25 km/l and 180 KES/l, puts in the
\* list a trip with earnings 870, trip_balance 50, discount 200, discount_rate
\* 20.0, earnings_per_km 87.0, fuel_used 0.4, estimated_fuel_cost 72.0,
\* service_fee_percent 10.0 and taxes_percent 5.0.
C18_ExampleTripDerivation ==
    [][(/\ SaveTrip(20240105, 900, BaseEntries,
                    [eff |-> Num(25 * Scale), price |-> Num(180 * Scale)])
        /\ Len(trips') = Len(trips) + 1)
       => /\ InputsOf(trips'[1]) = ParsedInputs(BaseEntries)
          /\ DerivedOf(trips'[1])
               = [earnings |-> 870 * Scale, trip_balance |-> 50 * Scale,
                  discount |-> 200 * Scale, discount_rate |-> 20 * Scale,
                  earnings_per_km |-> 87 * Scale, fuel_used |-> 40,
                  estimated_fuel_cost |-> 72 * Scale,
                  service_fee_percent |-> 10 * Scale, taxes_percent |-> 5 * Scale]]_vars

\* C18 witness: save_trip has just added that trip as the first handler run,
\* with fuel_used 0.4 and estimated_fuel_cost 72.0.
C18_ExampleTripAdded ==
    /\ ops = 1 /\ msg = "Success"
    /\ trips # <<>>
    /\ trips[1].id = {}
    /\ InputsOf(trips[1]) = ParsedInputs(BaseEntries)
    /\ trips[1].fuel_used = 40 /\ trips[1].estimated_fuel_cost = 72 * Scale

\* every trip of the list ts carries the derivation under eff and price
DerivedUnder(ts, eff, price) ==
    \A i \in 1..Len(ts) : DerivedOf(ts[i]) = Metrics(InputsOf(ts[i]), eff, price)

\* C19: the list an accepted save_settings leaves is a fixed point of the
\* recalculation under the same configuration, and a save_settings that runs
\* on a list already recalculated under its configuration leaves the derived
\* fields of every trip as they were.
C19_RecalculationIdempotent ==
    [][\A cfg \in SettingsInputs :
          (SaveSettings(cfg) /\ SettingsAccepted(cfg))
          => /\ RecalcAll(trips', cfg.eff.val, cfg.price.val) = trips'
             /\ (/\ default_fuel_efficiency = cfg.eff.val
                 /\ default_petrol_price = cfg.price.val
                 /\ DerivedUnder(trips, cfg.eff.val, cfg.price.val))
                => /\ Len(trips') = Len(trips)
                   /\ \A i \in 1..Len(trips) :
                         DerivedOf(trips'[i]) = DerivedOf(trips[i])]_vars

\* C19 witness: save_settings has run twice on the two stored trips (each run
\* writes two rows), the second time under 50 km/l and 200 KES/l.
C19_RecalculatedTwice ==
    /\ ops = 2 /\ msg = "Success"
    /\ Len(trips) = 2
    /\ db_trip_seq = 3 + 2 + 2
    /\ default_fuel_efficiency = 50 * Scale /\ default_petrol_price = 200 * Scale
    /\ DerivedUnder(trips, 50 * Scale, 200 * Scale)

\* the sum of field f over the rows of a table, taken in the order of the ids
\* (PRIMARY KEY: no two rows share one)
SumRows(rows, f) ==
    LET placed == { <<Cardinality({ q \in rows : \E m \in q.id, n \in r.id : m < n }) + 1, r>> :
                      r \in rows }
        byId == [k \in 1..Cardinality(rows) |-> (CHOOSE p \in placed : p[1] = k)[2]]
    IN SumField(SubSeq(byId, 1, Cardinality(rows)), f)

\* C20: when the program has started (no handler has shown a message yet),
\* every row of table trips is in self.trips and every row of table fuel_logs
\* is in self.fuel_logs, and the balance and the fuel level are the sums over
\* all the rows of the tables.
C20_LoadBringsEveryStoredRecord ==
    msg = "" =>
        /\ \A r \in db_trips : \E i \in 1..Len(trips) : trips[i] = r
        /\ \A r \in db_fuel_logs : \E i \in 1..Len(fuel_logs) : fuel_logs[i] = r
        /\ balance = SumRows(db_trips, "trip_balance")
        /\ current_fuel = FSub(SumRows(db_fuel_logs, "liters"), SumRows(db_trips, "fuel_used"))

\* a step of save_trip that added a trip
TripAddStep ==
    /\ Len(trips') = Len(trips) + 1
    /\ \E d \in Dates, t \in Times, e \in TripEntryInputs, cfg \in SettingsInputs :
          SaveTrip(d, t, e, cfg)

\* C21: every add of a trip leaves the balance equal to the sum of
\* trip_balance over the new list and the fuel level equal to the liters of
\* the fuel logs minus the fuel_used of the new list, whatever the two values
\* were before the add.
C21_AddLeavesLedgersAsReductions ==
    [][TripAddStep
       => /\ balance' = recalculate_balance(trips')
          /\ current_fuel' = recalculate_current_fuel(trips', fuel_logs')]_vars

\* C22: a confirmed delete_selected_trip that changes the trip list removes
\* from it the trip shown in the selected row of the view, and no other trip.
C22_DeleteRemovesSelectedTrip ==
    [][\A sel \in 1..Len(trips_tree) :
          (DeleteSelectedTrip(sel, TRUE) /\ trips' # trips)
          => \E i \in 1..Len(trips) :
                /\ Row(trips[i]) = trips_tree[sel]
                /\ trips' = RemoveAt(trips, i)]_vars

\* C23: an update_trip that reports success replaces the record of the trip
\* under edit (the trip of the list with the id the edit was opened on) with
\* one that has the inputs of the entries, the nine fields derived from them,
\* and the id and the date of that trip; the list keeps its length and every
\* other trip.
C23_EditReplacesOnlyTheEditedTrip ==
    [][\A t \in Times, e \in TripEntryInputs, cfg \in SettingsInputs :
          (UpdateTrip(t, e, cfg) /\ msg' = "Success")
          => \E i \in 1..Len(trips) :
                /\ trips[i].id = edit_dialog.id
                /\ Len(trips') = Len(trips)
                /\ \A j \in 1..Len(trips) : j # i => trips'[j] = trips[j]
                /\ trips'[i].id = trips[i].id
                /\ trips'[i].date = trips[i].date
                /\ InputsOf(trips'[i]) = ParsedInputs(e)
                /\ DerivedOf(trips'[i]) = Metrics(ParsedInputs(e), cfg.eff.val, cfg.price.val)]_vars

\* C24: in every reachable state the trip list is ordered newest first, by
\* date and then by start time.
C24_TripListNewestFirst ==
    NewestFirst(trips)

\* the row r of table trips is not in the trip list
NotLoaded(r) == \A i \in 1..Len(trips) : trips[i] # r

\* C25: no step removes from table trips a trip that was stored and not
\* loaded: a row that is not in the trip list before the step is still in the
\* table after it (under whatever id).
C25_UnloadedTripsStayStored ==
    [][\A r \in db_trips :
          NotLoaded(r) => \E q \in db_trips' : WithoutId(q) = WithoutId(r)]_vars

\* a step that ran save_data: an add of a trip, an add of a fuel log, or an
\* accepted save_settings
SaveDataStep ==
    \/ TripAddStep
    \/ /\ Len(fuel_logs') = Len(fuel_logs) + 1
       /\ \E inp \in FuelInputs : AddFuel(inp)
    \/ \E cfg \in SettingsInputs : SaveSettings(cfg) /\ SettingsAccepted(cfg)

\* C26: after every step that ran save_data, every fuel log of the fuel list
\* is a row of table fuel_logs and every trip of the trip list is a row of
\* table trips.
C26_SaveDataStoresBothLists ==
    [][SaveDataStep
       => /\ \A i \in 1..Len(fuel_logs') :
                \E q \in db_fuel_logs' : WithoutId(q) = WithoutId(fuel_logs'[i])
          /\ \A i \in 1..Len(trips') :
                \E q \in db_trips' : WithoutId(q) = WithoutId(trips'[i])]_vars

\* C27: a trip added in the running session (it carries no id) can be edited
\* and deleted: an update_trip on it with entries that pass the checks puts a
\* record with the inputs of the entries in its place, and a confirmed delete
\* removes it from the list and leaves the balance and the fuel level as the
\* sums over the new list.
C27_SessionTripEditableAndDeletable ==
    [][/\ \A t \in Times, e \in TripEntryInputs, cfg \in SettingsInputs :
             (/\ UpdateTrip(t, e, cfg)
              /\ edit_dialog.id = {}
              /\ ReachesDuplicateCheck(e, cfg)
              /\ edit_dialog.selected_index <= Len(trips))
             => InputsOf(trips'[edit_dialog.selected_index]) = ParsedInputs(e)
       /\ \A sel \in 1..Len(trips) :
             (DeleteSelectedTrip(sel, TRUE) /\ trips[sel].id = {})
             => /\ trips' = RemoveAt(trips, sel)
                /\ balance' = recalculate_balance(trips')
                /\ current_fuel' = recalculate_current_fuel(trips', fuel_logs')]_vars

\* C28: an update_trip that reports success, whatever was added to or deleted
\* from the trip list since the trip was selected, changes no trip other than
\* the selected one (the trip with the id the edit was opened on), and leaves
\* that id on one trip of the list only.
C28_UpdateTouchesSelectedTripOnly ==
    [][\A t \in Times, e \in TripEntryInputs, cfg \in SettingsInputs :
          (UpdateTrip(t, e, cfg) /\ msg' = "Success")
          => /\ \A j \in 1..Len(trips) :
                   trips[j].id # edit_dialog.id => trips'[j] = trips[j]
             /\ Cardinality({ j \in 1..Len(trips') : trips'[j].id = edit_dialog.id }) = 1]_vars

\* C29: in every reachable state no two trips of the list have the same
\* (date, start time, distance_km, fare).
C29_NoTwoTripsShareDuplicateKey ==
    \A i, j \in 1..Len(trips) : DuplicateKey(trips[i]) = DuplicateKey(trips[j]) => i = j

\* C30: the trip a save_trip adds, and the record an update_trip puts in the
\* list, have fuel_used and estimated_fuel_cost derived under the saved
\* configuration (the module globals save_settings validated), whatever the
\* two settings entries read; so its fuel_used is not negative.
C30_FuelDerivedFromSavedSettings ==
    [][/\ \A d \in Dates, t \in Times, e \in TripEntryInputs, cfg \in SettingsInputs :
             (SaveTrip(d, t, e, cfg) /\ Len(trips') = Len(trips) + 1)
             => LET m == Metrics(ParsedInputs(e), default_fuel_efficiency, default_petrol_price)
                IN /\ trips'[1].fuel_used = m.fuel_used
                   /\ trips'[1].estimated_fuel_cost = m.estimated_fuel_cost
                   /\ trips'[1].fuel_used >= 0
       /\ \A t \in Times, e \in TripEntryInputs, cfg \in SettingsInputs :
             (UpdateTrip(t, e, cfg) /\ msg' = "Success")
             => LET m == Metrics(ParsedInputs(e), default_fuel_efficiency, default_petrol_price)
                    u == trips'[edit_dialog.selected_index]
                IN /\ u.fuel_used = m.fuel_used
                   /\ u.estimated_fuel_cost = m.estimated_fuel_cost
                   /\ u.fuel_used >= 0]_vars

====
